---- MODULE Spec2Model ----
(***************************************************************************)
(* Session lifecycle and request authentication of adamkadda/ntumiwa:      *)
(* the in-memory session store, the session manager and its middleware,    *)
(* the exactly-once cookie writer, the CSRF guard and the authentication   *)
(* guard, with concurrent requests and the periodic sweep.                 *)
(***************************************************************************)
EXTENDS Integers, Sequences, FiniteSets, TLC

\* ---------------------------------------------------------------- bounds
NumReq == 2         \* request-handling goroutines that may run at once
MaxTime == 3        \* clock ticks the model follows
MaxRand == 6        \* values drawn from crypto/rand (ids and csrf tokens)
MaxWrites == 2      \* Write calls one business handler makes
MaxRequests == 3    \* requests the model follows from arrival to response
MaxRawLen == 3      \* bytes of a raw cookie value in the round trip

\* session expirations in clock ticks (SESSION_TTI < SESSION_TTL)
IdleExpiration == 1
AbsoluteExpiration == IdleExpiration + 1

Req == 1..NumReq
Obj == 1..(MaxRand \div 2)      \* every Session object costs two random values
NoObj == 0                      \* the nil *Session
Ids == 1..MaxRand
Users == {"admin"}
NoUser == "-"                   \* the data map holds no "username" key

SecretKey == "k"
ForgedKey == "x"
CookieName == "sid"

\* (mutant) the guard also stops GET
UnsafeMethods_WithGet == {"GET", "POST", "PUT", "PATCH", "DELETE"}
UnsafeMethods == {"POST", "PUT", "PATCH", "DELETE"}
Methods == {"GET", "HEAD", "OPTIONS"} \cup UnsafeMethods
Routes == {"crud", "login", "logout"}

VARIABLES
    now,        \* time.Now()
    rnd,        \* number of values crypto/rand has produced
    store,      \* InMemorySessionStore.sessions: id -> *Session
    heap,       \* the Session objects: id, data, createdAt, lastActivityAt
    users,      \* rows of the users table
    pc,         \* where each request is in the middleware chain
    sess,       \* the *Session bound to the request's context
    cookie,     \* the session cookie the request presented
    method,     \* r.Method
    tok,        \* the CSRF token the request submitted, and the one it was held against
    route,      \* the handler the request is routed to
    old,        \* Migrate's local `old`, and the data it found
    resp,       \* the response: header map, what went on the wire, sessionWriter.cookieSet
    hist,       \* what the request did (for the properties)
    served      \* requests that have arrived

vars == <<now, rnd, store, heap, users, pc, sess, cookie, method, tok, route, old, resp, hist,
          served>>

\* ------------------------------------------------------------ session.go
NullSession == [id |-> 0, csrf |-> <<>>, auth |-> FALSE, user |-> NoUser,
                created |-> 0, last |-> 0, live |-> FALSE]

\* (mutant) the token generator returns the empty string
generateCSRFToken_Empty(n) == <<>>

\* generateSessionID / generateCSRFToken: the n-th value of the random source
generateSessionID(n) == n + 1
generateCSRFToken(n) == <<n + 1>>

NewSession(n, t) ==
    [id |-> generateSessionID(n),
     csrf |-> generateCSRFToken(n + 1),
     auth |-> FALSE, user |-> NoUser,
     created |-> t, last |-> t, live |-> TRUE]

\* the next unallocated Session object
NewObj(h) == CHOOSE o \in Obj : ~h[o].live /\ \A p \in Obj : p < o => h[p].live

\* -------------------------------------------------------------- store.go
read(st, id) == IF id \in Ids THEN st[id] ELSE NoObj

write(st, h, o) == [st EXCEPT ![h[o].id] = o]

\* (mutant) destroying an id that is not in the map is not reported
destroyOk_Always(st, id) == TRUE

destroyOk(st, id) == id \in Ids /\ st[id] # NoObj

\* (mutant) the entry is found but not deleted
destroy_Keep(st, id) == st

destroy(st, id) == IF destroyOk(st, id) THEN [st EXCEPT ![id] = NoObj] ELSE st

Expired(s, t, tti, ttl) == t - s.last > tti \/ t - s.created > ttl

\* (mutant) the sweep looks at the idle time only
gc_IdleOnly(st, h, t, tti, ttl) ==
    [id \in Ids |-> IF st[id] # NoObj /\ t - h[st[id]].last > tti
                    THEN NoObj ELSE st[id]]

gc(st, h, t, tti, ttl) ==
    [id \in Ids |-> IF st[id] # NoObj /\ Expired(h[st[id]], t, tti, ttl)
                    THEN NoObj ELSE st[id]]

\* ------------------------------------------------------------ cookies.go
Size == 2                        \* sha256.Size, in bytes of the model
MaxCookieValue == Size + 2       \* the 4096 limit of Write, in bytes of the model

\* names that are not HTTP tokens: net/http neither writes nor reads such a cookie
InvalidNames == {"", "s id"}
isCookieNameValid(name) == name \notin InvalidNames

\* base64.URLEncoding: a string on the wire is the encoding of some bytes, or is
\* not base64 at all
EncodeToString(bytes) == [b64 |-> TRUE, bytes |-> bytes]
NotBase64 == [b64 |-> FALSE, bytes |-> <<>>]

NoCookie == [name |-> "", value |-> NotBase64]          \* the request carries no cookie
Garbage == [name |-> CookieName, value |-> NotBase64]   \* a value base64 cannot decode

\* the (string, error) results of Read and ReadSigned
Value(v) == [err |-> "", value |-> v]
ErrNoCookie == [err |-> "ErrNoCookie", value |-> <<>>]
ErrInvalidValue == [err |-> "ErrInvalidValue", value |-> <<>>]

\* hmac.New(sha256.New, key) over name, then value: Size bytes that no other
\* key, name and value produce
Hmac(key, name, value) == [i \in 1..Size |-> IF i = 1 THEN <<key, name, value>> ELSE 0]

\* Write: base64, the length limit, http.SetCookie; `set` is what was added to
\* the header map
Write(name, bytes) ==
    IF Len(bytes) > MaxCookieValue THEN [err |-> "ErrValueTooLong", set |-> <<>>]
    ELSE [err |-> "",
          set |-> IF isCookieNameValid(name)
                  THEN <<[name |-> name, value |-> EncodeToString(bytes)]>>
                  ELSE <<>>]

\* WriteSigned: the cookie value becomes signature || value
WriteSigned(name, value, key) == Write(name, Hmac(key, name, value) \o value)

\* Read: r.Cookie(name), then base64 decoding
Read(c, name) ==
    IF c = NoCookie \/ c.name # name \/ ~isCookieNameValid(name) THEN ErrNoCookie
    ELSE IF ~c.value.b64 THEN ErrInvalidValue
    ELSE Value(c.value.bytes)

\* (mutant) the signature is split off but not compared
ReadSigned_Unchecked(c, name, key) ==
    LET signedValue == Read(c, name).value
    IN  IF Read(c, name).err # "" THEN Read(c, name)
        ELSE IF Len(signedValue) < Size THEN ErrInvalidValue
        ELSE Value(SubSeq(signedValue, Size + 1, Len(signedValue)))

\* (mutant) a signed value of exactly Size bytes is refused
ReadSigned_Strict(c, name, key) ==
    LET signedValue == Read(c, name).value
        signature == SubSeq(signedValue, 1, Size)
        value == SubSeq(signedValue, Size + 1, Len(signedValue))
    IN  IF Read(c, name).err # "" THEN Read(c, name)
        ELSE IF Len(signedValue) <= Size THEN ErrInvalidValue
        ELSE IF signature # Hmac(key, name, value) THEN ErrInvalidValue
        ELSE Value(value)

\* ReadSigned: split at Size, recompute the signature, compare
ReadSigned(c, name, key) ==
    LET signedValue == Read(c, name).value
        signature == SubSeq(signedValue, 1, Size)
        value == SubSeq(signedValue, Size + 1, Len(signedValue))
    IN  IF Read(c, name).err # "" THEN Read(c, name)
        ELSE IF Len(signedValue) < Size THEN ErrInvalidValue
        ELSE IF signature # Hmac(key, name, value) THEN ErrInvalidValue
        ELSE Value(value)

\* a session id as the string a cookie carries
idString(id) == <<id>>

\* start: the id ReadSigned yields for the session cookie, 0 when it fails
SessionId(c) ==
    LET res == ReadSigned(c, CookieName, SecretKey)
    IN  IF res.err # "" \/ Len(res.value) # 1 THEN 0 ELSE res.value[1]

\* the cookies a client can present once n random values have been issued
ClientCookies(n) ==
    {NoCookie, Garbage}
        \cup {WriteSigned(CookieName, idString(generateSessionID(i)), k).set[1] :
                i \in {j \in 0..(n - 1) : j % 2 = 0}, k \in {SecretKey, ForgedKey}}

\* ------------------------------------------------- net/http ResponseWriter
\* hdr / wire: the Set-Cookie headers in the header map / sent; other / sent: the
\* remaining headers of the session layer, as <<name, value>> pairs
NoResp == [hdr |-> <<>>, wrote |-> FALSE, status |-> 0, wire |-> <<>>, cookieSet |-> FALSE,
           n |-> 0, other |-> {}, sent |-> {}]

\* http.ResponseWriter.WriteHeader: the first call sends the header map
RawWriteHeader(p, code) ==
    IF p.wrote THEN p
    ELSE [p EXCEPT !.wrote = TRUE, !.status = code, !.wire = p.hdr, !.sent = p.other]

\* http.ResponseWriter.Write: an implicit WriteHeader(200) when none was sent
RawWrite(p) == RawWriteHeader(p, 200)

\* SessionManager.WriteCookie: http.SetCookie adds one Set-Cookie to the header map
WriteCookie(p, s) ==
    [p EXCEPT !.hdr = p.hdr \o WriteSigned(CookieName, idString(s.id), SecretKey).set]

\* Middleware: Header().Add Vary and Cache-Control, Header().Set X-CSRF-Token
SessionHeaders(p, s) ==
    [p EXCEPT !.other = (p.other \ {h \in p.other : h[1] = "X-CSRF-Token"})
                            \cup {<<"Vary", "Cookie">>, <<"Cache-Control", "no-cache">>,
                                  <<"X-CSRF-Token", s.csrf>>}]

\* ------------------------------------------------------- sessionWriter
\* (mutant) the cookieSet flag is neither read nor set
writeCookieOnce_NoFlag(p, s) == WriteCookie(p, s)

writeCookieOnce(p, s) ==
    IF p.cookieSet THEN p
    ELSE [WriteCookie(p, s) EXCEPT !.cookieSet = TRUE]

\* n counts the WriteHeader and Write calls the sessionWriter has received
SwWriteHeader(p, s, code) ==
    [RawWriteHeader(writeCookieOnce(p, s), code) EXCEPT !.n = p.n + 1]

SwWrite(p, s) == [RawWrite(writeCookieOnce(p, s)) EXCEPT !.n = p.n + 1]

\* http.Error on the sessionWriter: WriteHeader(code), then the body
HttpError(p, s, code) == SwWrite(SwWriteHeader(p, s, code), s)

RECURSIVE SwWrites(_, _, _)
SwWrites(p, s, k) == IF k = 0 THEN p ELSE SwWrites(SwWrite(p, s), s, k - 1)

\* the server sends the headers when the handler returns without writing
finishRequest(p) == RawWriteHeader(p, 200)

\* --------------------------------------------------------- manager.go
validate(s, t) == ~Expired(s, t, IdleExpiration, AbsoluteExpiration)

\* (mutant) no length check: the submitted token is compared over the length of
\* the session's token only
verifyCSRFToken_Prefix(s, form, header) ==
    LET requestCSRFToken == IF form = <<>> THEN header ELSE form
    IN  /\ Len(requestCSRFToken) >= Len(s.csrf)
        /\ SubSeq(requestCSRFToken, 1, Len(s.csrf)) = s.csrf

\* verifyCSRFToken: the form field, else the header, against the session's token
verifyCSRFToken(s, form, header) ==
    LET requestCSRFToken == IF form = <<>> THEN header ELSE form
    IN  /\ Len(s.csrf) = Len(requestCSRFToken)
        /\ s.csrf = requestCSRFToken

\* the tokens a client may submit against session s
ClientTokens(s) == {<<>>, s.csrf, <<0>>, s.csrf \o <<0>>}
ClientHeaders(s) == {<<>>, s.csrf, <<0>>}

NoTok == [form |-> <<>>, header |-> <<>>, held |-> <<>>]
NoOld == [id |-> 0, csrf |-> <<>>, auth |-> FALSE, user |-> NoUser, created |-> 0,
          name |-> NoUser]
NoSeen == [auth |-> FALSE, user |-> NoUser, exists |-> FALSE, err |-> FALSE]
NoHist == [start |-> "", cid |-> 0, fresh |-> FALSE, next |-> 0, handler |-> 0,
           rejected |-> "", seen |-> NoSeen, login |-> "", saved |-> 0]

\* Session objects no request and no store entry points to are garbage: their
\* fields are cleared (the slot stays used, so object names are never recycled)
DeadSession == [NullSession EXCEPT !.live = TRUE]
Scrub(h, st, se) ==
    [o \in Obj |-> IF h[o].live /\ (\A id \in Ids : st[id] # o) /\ (\A r \in Req : se[r] # o)
                   THEN DeadSession ELSE h[o]]

Init ==
    /\ now = 0
    /\ rnd = 0
    /\ store = [id \in Ids |-> NoObj]
    /\ heap = [o \in Obj |-> NullSession]
    /\ users = Users
    /\ pc = [r \in Req |-> "idle"]
    /\ sess = [r \in Req |-> NoObj]
    /\ cookie = [r \in Req |-> NoCookie]
    /\ method = [r \in Req |-> ""]
    /\ tok = [r \in Req |-> NoTok]
    /\ route = [r \in Req |-> ""]
    /\ old = [r \in Req |-> NoOld]
    /\ resp = [r \in Req |-> NoResp]
    /\ hist = [r \in Req |-> NoHist]
    /\ served = 0

\* A request that has ended is private to its goroutine: its record is cleared
\* (Reset) before the model follows any other step
Quiet == \A q \in Req : pc[q] \notin {"done", "panic"}

\* ------------------------------------------------ SessionManager.start
\* start, first half: ReadSigned, then store.read under the read lock
StartRead(r, c) ==
    /\ pc[r] = "idle"
    /\ Quiet
    /\ served < MaxRequests
    /\ served' = served + 1
    /\ LET v == SessionId(c)
           o == IF v = 0 THEN NoObj ELSE read(store, v)
       IN  /\ sess' = [sess EXCEPT ![r] = o]
           /\ hist' = [hist EXCEPT ![r].cid = IF o # NoObj THEN v ELSE 0]
    /\ cookie' = [cookie EXCEPT ![r] = c]
    /\ pc' = [pc EXCEPT ![r] = "validate"]
    /\ UNCHANGED <<now, rnd, store, heap, users, method, tok, route, old, resp>>

\* start, second half: session == nil || !validate(session) -> NewSession
Mint(r, st) ==
    /\ rnd + 2 <= MaxRand
    /\ LET o == NewObj(heap)
           se == [sess EXCEPT ![r] = o]
       IN  /\ heap' = Scrub([heap EXCEPT ![o] = NewSession(rnd, now)], st, se)
           /\ sess' = se
    /\ rnd' = rnd + 2
    /\ store' = st
    /\ pc' = [pc EXCEPT ![r] = "csrf"]

Validate(r) ==
    /\ pc[r] = "validate"
    /\ Quiet
    /\ IF sess[r] = NoObj
       THEN /\ Mint(r, store)
            /\ hist' = [hist EXCEPT ![r].start = "minted"]
       ELSE LET s == heap[sess[r]]
                h == [hist EXCEPT ![r].fresh = ~Expired(s, now, IdleExpiration, AbsoluteExpiration)]
            IN  IF validate(s, now)
                THEN /\ pc' = [pc EXCEPT ![r] = "csrf"]
                     /\ hist' = [h EXCEPT ![r].start = "active"]
                     /\ UNCHANGED <<rnd, store, heap, sess>>
                ELSE IF destroyOk(store, s.id)
                THEN /\ Mint(r, destroy(store, s.id))
                     /\ hist' = [h EXCEPT ![r].start = "minted"]
                ELSE \* panic(err): the request goroutine unwinds, no response
                     /\ pc' = [pc EXCEPT ![r] = "panic"]
                     /\ hist' = [h EXCEPT ![r].start = "panic"]
                     /\ UNCHANGED <<rnd, store, heap, sess>>
    /\ UNCHANGED <<now, users, cookie, method, tok, route, old, resp, served>>

\* -------------------------------------------------- session.Middleware
\* the CSRF guard, then the sessionWriter and the session headers
CSRFCheck(r, m, form, header) ==
    /\ pc[r] = "csrf"
    /\ Quiet
    /\ LET s == heap[sess[r]]
       IN  /\ tok' = [tok EXCEPT ![r] = [form |-> form, header |-> header, held |-> s.csrf]]
           /\ IF m \in UnsafeMethods /\ ~verifyCSRFToken(s, form, header)
              THEN \* http.Error(w, ..., 403) on the bare writer; return
                   /\ resp' = [resp EXCEPT ![r] = RawWrite(RawWriteHeader(resp[r], 403))]
                   /\ hist' = [hist EXCEPT ![r].rejected = "csrf", ![r].fresh = FALSE]
                   /\ pc' = [pc EXCEPT ![r] = "done"]
              ELSE /\ hist' = [hist EXCEPT ![r].next = hist[r].next + 1, ![r].fresh = FALSE]
                   /\ pc' = [pc EXCEPT ![r] = "next"]
                   /\ resp' = [resp EXCEPT ![r] = SessionHeaders(resp[r], s)]
    /\ method' = [method EXCEPT ![r] = m]
    /\ cookie' = [cookie EXCEPT ![r] = NoCookie]
    /\ UNCHANGED <<now, rnd, store, heap, users, sess, route, old, served>>

\* SessionManager.Migrate up to the destroy: the caller goes on to `ifOk` when the
\* old id was in the store, and handles the error otherwise
MigrateDestroy(r, name, failResp, failPc) ==
    LET s == heap[sess[r]]
    IN  IF destroyOk(store, s.id)
        THEN /\ store' = destroy(store, s.id)
             /\ old' = [old EXCEPT ![r] = [id |-> s.id, csrf |-> s.csrf, auth |-> s.auth,
                                           user |-> s.user, created |-> s.created,
                                           name |-> name]]
             /\ pc' = [pc EXCEPT ![r] = "migrate"]
             /\ resp' = resp
        ELSE /\ resp' = [resp EXCEPT ![r] = failResp]
             /\ old' = [old EXCEPT ![r].id = s.id]
             /\ pc' = [pc EXCEPT ![r] = failPc]
             /\ store' = store

\* SessionManager.Migrate after the destroy: a new id and a new csrf token
MigrateAssign(r) ==
    /\ pc[r] = "migrate"
    /\ Quiet
    /\ rnd + 2 <= MaxRand
    /\ heap' = [heap EXCEPT ![sess[r]].id = generateSessionID(rnd),
                            ![sess[r]].csrf = generateCSRFToken(rnd + 1)]
    /\ rnd' = rnd + 2
    /\ pc' = [pc EXCEPT ![r] = "migrated"]
    /\ UNCHANGED <<now, store, users, sess, cookie, method, tok, route, old, resp, hist, served>>

\* ------------------------------------------------------ auth.Middleware
\* (mutant) a failed lookup lets the request through
authGate_FailOpen(auth, user, err, exists) ==
    IF ~auth THEN "unauthenticated"
    ELSE IF user = NoUser THEN "nousername"
    ELSE IF ~err /\ ~exists THEN "stale"
    ELSE "next"

\* the guard's decision from what it read: authenticated, username, lookup error, exists
authGate(auth, user, err, exists) ==
    IF ~auth THEN "unauthenticated"
    ELSE IF user = NoUser THEN "nousername"
    ELSE IF err THEN "dberror"
    ELSE IF ~exists THEN "stale"
    ELSE "next"

AuthMiddleware(r, dberr) ==
    /\ pc[r] = "next"
    /\ Quiet
    /\ LET s == heap[sess[r]]
           exists == s.user \in users
           forbidden == HttpError(resp[r], s, 403)
           seen1 == [NoSeen EXCEPT !.auth = s.auth]
           seen2 == [seen1 EXCEPT !.user = s.user]
           seen3 == [seen2 EXCEPT !.err = dberr]
           seen == [seen3 EXCEPT !.exists = exists]
           gate == authGate(s.auth, s.user, dberr, exists)
       IN  CASE gate = "unauthenticated" ->
                \* IsAuthenticated(r) is false
                /\ ~dberr
                /\ resp' = [resp EXCEPT ![r] = forbidden]
                /\ hist' = [hist EXCEPT ![r].seen = seen1, ![r].rejected = "auth"]
                /\ pc' = [pc EXCEPT ![r] = "save"]
                /\ UNCHANGED <<store, old>>
             [] gate = "nousername" ->
                \* session.Get("username").(string) fails
                /\ ~dberr
                /\ resp' = [resp EXCEPT ![r] = forbidden]
                /\ hist' = [hist EXCEPT ![r].seen = seen2, ![r].rejected = "auth"]
                /\ pc' = [pc EXCEPT ![r] = "save"]
                /\ UNCHANGED <<store, old>>
             [] gate = "dberror" ->
                \* db.UserExists returned an error
                /\ resp' = [resp EXCEPT ![r] = forbidden]
                /\ hist' = [hist EXCEPT ![r].seen = seen3, ![r].rejected = "auth"]
                /\ pc' = [pc EXCEPT ![r] = "save"]
                /\ UNCHANGED <<store, old>>
             [] gate = "stale" ->
                \* m.Migrate(session), its error dropped; then http.Error 403
                /\ MigrateDestroy(r, NoUser, forbidden, "save")
                /\ hist' = [hist EXCEPT ![r].seen = seen, ![r].rejected = "auth"]
             [] OTHER ->
                \* next.ServeHTTP(w, r)
                /\ pc' = [pc EXCEPT ![r] = "handler"]
                /\ hist' = [hist EXCEPT ![r].seen = seen, ![r].handler = hist[r].handler + 1]
                /\ UNCHANGED <<store, old, resp>>
    /\ route' = [route EXCEPT ![r] = "crud"]
    /\ tok' = [tok EXCEPT ![r] = NoTok]
    /\ method' = [method EXCEPT ![r] = ""]
    /\ UNCHANGED <<now, rnd, heap, users, sess, cookie, served>>

\* a business handler behind the authentication guard: k writes to the response
Handler(r, k) ==
    /\ pc[r] = "handler"
    /\ Quiet
    /\ resp' = [resp EXCEPT ![r] = SwWrites(resp[r], heap[sess[r]], k)]
    /\ pc' = [pc EXCEPT ![r] = "save"]
    /\ UNCHANGED <<now, rnd, store, heap, users, sess, cookie, method, tok, route, old, hist, served>>

\* ------------------------------------------------- LoginHandler (login.go)
LoginHandler(r, username, pwok) ==
    /\ pc[r] = "next"
    /\ Quiet
    /\ LET s == heap[sess[r]]
           p == resp[r]
       IN  IF method[r] = "GET"
           THEN \* loginGET: 204 when already logged in, else 200
                /\ resp' = [resp EXCEPT ![r] = SwWriteHeader(p, s, IF s.auth THEN 204 ELSE 200)]
                /\ pc' = [pc EXCEPT ![r] = "save"]
                /\ UNCHANGED <<store, old, hist>>
           ELSE IF method[r] # "POST"
           THEN /\ resp' = [resp EXCEPT ![r] = SwWriteHeader(p, s, 405)]
                /\ pc' = [pc EXCEPT ![r] = "save"]
                /\ UNCHANGED <<store, old, hist>>
           ELSE IF ~verifyCSRFToken(s, tok[r].form, tok[r].header)
           THEN /\ resp' = [resp EXCEPT ![r] = SwWrite(SwWriteHeader(p, s, 401), s)]
                /\ pc' = [pc EXCEPT ![r] = "save"]
                /\ UNCHANGED <<store, old, hist>>
           ELSE IF ~(username \in users /\ pwok)
           THEN \* VerifyCredentials failed
                /\ resp' = [resp EXCEPT ![r] = SwWrite(SwWriteHeader(p, s, 401), s)]
                /\ pc' = [pc EXCEPT ![r] = "save"]
                /\ UNCHANGED <<store, old, hist>>
           ELSE \* auth.Login: Migrate; its error is dropped and 200 is written
                /\ MigrateDestroy(r, username, SwWrite(SwWriteHeader(p, s, 200), s), "save")
                /\ hist' = [hist EXCEPT ![r].login = IF destroyOk(store, s.id) THEN "" ELSE "err"]
    /\ route' = [route EXCEPT ![r] = "login"]
    /\ tok' = [tok EXCEPT ![r] = NoTok]
    /\ method' = [method EXCEPT ![r] = ""]
    /\ UNCHANGED <<now, rnd, heap, users, sess, cookie, served>>

\* ----------------------------------------------- LogoutHandler (logout.go)
LogoutHandler(r) ==
    /\ pc[r] = "next"
    /\ Quiet
    /\ LET s == heap[sess[r]]
           p == resp[r]
       IN  IF method[r] # "POST"
           THEN /\ resp' = [resp EXCEPT ![r] = SwWriteHeader(p, s, 405)]
                /\ pc' = [pc EXCEPT ![r] = "save"]
                /\ UNCHANGED <<store, old>>
           ELSE IF ~s.auth
           THEN /\ resp' = [resp EXCEPT ![r] = SwWriteHeader(p, s, 204)]
                /\ pc' = [pc EXCEPT ![r] = "save"]
                /\ UNCHANGED <<store, old>>
           ELSE \* auth.Logout: Migrate; 500 when it fails
                MigrateDestroy(r, NoUser, SwWriteHeader(p, s, 500), "save")
    /\ route' = [route EXCEPT ![r] = "logout"]
    /\ tok' = [tok EXCEPT ![r] = NoTok]
    /\ method' = [method EXCEPT ![r] = ""]
    /\ UNCHANGED <<now, rnd, heap, users, sess, cookie, hist, served>>

\* auth.Login and auth.Logout after their Migrate: the Puts and the Delete
Login(s, username) == [s EXCEPT !.auth = TRUE, !.user = username]

\* (mutant) Logout forgets to delete the username
Logout_KeepUsername(s) == [s EXCEPT !.auth = FALSE]

Logout(s) == [s EXCEPT !.auth = FALSE, !.user = NoUser]

\* what the caller of Migrate does once Migrate has returned nil
AfterMigrate(r) ==
    /\ pc[r] = "migrated"
    /\ Quiet
    /\ LET s == heap[sess[r]]
           p == resp[r]
       IN  IF route[r] = "crud"
           THEN \* auth.Middleware: http.Error 403
                /\ resp' = [resp EXCEPT ![r] = HttpError(p, s, 403)]
                /\ UNCHANGED <<heap, hist>>
           ELSE IF route[r] = "login"
           THEN \* auth.Login puts authenticated and username; loginPOST writes 200
                /\ heap' = [heap EXCEPT ![sess[r]] = Login(s, old[r].name)]
                /\ resp' = [resp EXCEPT ![r] = SwWrite(SwWriteHeader(p, s, 200), s)]
                /\ hist' = [hist EXCEPT ![r].login = "ok"]
           ELSE \* auth.Logout clears authenticated and username; the handler writes 204
                /\ heap' = [heap EXCEPT ![sess[r]] = Logout(s)]
                /\ resp' = [resp EXCEPT ![r] = SwWriteHeader(p, s, 204)]
                /\ hist' = hist
    /\ pc' = [pc EXCEPT ![r] = "save"]
    /\ old' = [old EXCEPT ![r] = [NoOld EXCEPT !.id = old[r].id, !.name = old[r].name]]
    /\ UNCHANGED <<now, rnd, store, users, sess, cookie, method, tok, route, served>>

\* ------------------------------------ session.Middleware, after the handler
\* (mutant) save also restarts the session's age
save_Renew(st, h, o, t) ==
    LET h2 == [h EXCEPT ![o].last = t, ![o].created = t]
    IN  [heap |-> h2, store |-> write(st, h2, o)]

save(st, h, o, t) ==
    LET h2 == [h EXCEPT ![o].last = t]
    IN  [heap |-> h2, store |-> write(st, h2, o)]

Finish(r) ==
    /\ pc[r] = "save"
    /\ Quiet
    /\ LET sv == save(store, heap, sess[r], now)
           s == sv.heap[sess[r]]
           p == IF resp[r].cookieSet THEN resp[r] ELSE WriteCookie(resp[r], s)
       IN  /\ heap' = sv.heap
           /\ store' = sv.store
           /\ resp' = [resp EXCEPT ![r] = finishRequest(p)]
           /\ hist' = [hist EXCEPT ![r].saved = s.id]
    /\ pc' = [pc EXCEPT ![r] = "done"]
    /\ UNCHANGED <<now, rnd, users, sess, cookie, method, tok, route, old, served>>

\* the response is out (or the goroutine has unwound): the next request may come
Reset(r) ==
    /\ pc[r] \in {"done", "panic"}
    /\ pc' = [pc EXCEPT ![r] = "idle"]
    /\ sess' = [sess EXCEPT ![r] = NoObj]
    /\ cookie' = [cookie EXCEPT ![r] = NoCookie]
    /\ method' = [method EXCEPT ![r] = ""]
    /\ tok' = [tok EXCEPT ![r] = NoTok]
    /\ route' = [route EXCEPT ![r] = ""]
    /\ old' = [old EXCEPT ![r] = NoOld]
    /\ resp' = [resp EXCEPT ![r] = NoResp]
    /\ hist' = [hist EXCEPT ![r] = NoHist]
    /\ heap' = Scrub(heap, store, [sess EXCEPT ![r] = NoObj])
    /\ UNCHANGED <<now, rnd, store, users, served>>

\* ------------------------------------------------------- the environment
\* (mutant) the ticker has stopped: a tick sweeps nothing
Sweep_Stopped == UNCHANGED vars

\* SessionManager.gc: one tick of the sweep ticker
Sweep ==
    /\ store' = gc(store, heap, now, IdleExpiration, AbsoluteExpiration)
    /\ heap' = Scrub(heap, store', sess)
    /\ UNCHANGED <<now, rnd, users, pc, sess, cookie, method, tok, route, old, resp, hist, served>>

Tick ==
    /\ now < MaxTime
    /\ now' = now + 1
    /\ UNCHANGED <<rnd, store, heap, users, pc, sess, cookie, method, tok, route, old, resp, hist, served>>

\* a row of the users table is deleted
DeleteUser(u) ==
    /\ u \in users
    /\ users' = users \ {u}
    /\ UNCHANGED <<now, rnd, store, heap, pc, sess, cookie, method, tok, route, old, resp, hist, served>>

\* ------------------------------------------- accesses to a shared *Session
\* the fields of its session the request's next step writes, none of them under
\* the store's lock: Migrate (id, data), Login and Logout (data), save
\* (lastActivityAt)
UnlockedWrites(r) ==
    IF pc[r] = "migrate" THEN {"id", "data"}
    ELSE IF pc[r] = "migrated" /\ route[r] \in {"login", "logout"} THEN {"data"}
    ELSE IF pc[r] = "save" THEN {"lastActivityAt"}
    ELSE {}

\* the fields of its session the request's next step reads
SessionReads(r) ==
    IF pc[r] = "validate" THEN {"id", "createdAt", "lastActivityAt"}
    ELSE IF pc[r] = "csrf" THEN {"data"}
    ELSE IF pc[r] = "next" THEN {"id", "data"}
    ELSE IF pc[r] \in {"handler", "migrated", "save"} THEN {"id"}
    ELSE {}

\* the fields store.gc reads of every session in the map
SweepReads == {"createdAt", "lastActivityAt"}

\* concurrent requests submit the right token or a wrong one in the form
FormTokens(s) == {s.csrf, <<0>>}
NoHeader(s) == {<<>>}

\* the requests in `reqs` run side by side; clients draw the method from `ms` and
\* the submitted tokens from the wide sets or the narrow ones
Step(reqs, ms, wide) ==
    \/ \E r \in reqs : \E c \in ClientCookies(rnd) : StartRead(r, c)
    \/ \E r \in reqs : Validate(r)
    \/ \E r \in reqs :
         /\ pc[r] = "csrf"
         /\ \E m \in ms :
              \E form \in IF wide THEN ClientTokens(heap[sess[r]]) ELSE FormTokens(heap[sess[r]]),
                 header \in IF wide THEN ClientHeaders(heap[sess[r]]) ELSE NoHeader(heap[sess[r]]) :
                 CSRFCheck(r, m, form, header)
    \/ \E r \in reqs : \E dberr \in BOOLEAN : AuthMiddleware(r, dberr)
    \/ \E r \in reqs : \E k \in 0..MaxWrites : Handler(r, k)
    \/ \E r \in reqs : \E u \in Users, pwok \in BOOLEAN : LoginHandler(r, u, pwok)
    \/ \E r \in reqs : LogoutHandler(r)
    \/ \E r \in reqs : MigrateAssign(r)
    \/ \E r \in reqs : AfterMigrate(r)
    \/ \E r \in reqs : Finish(r)
    \/ \E r \in reqs : Reset(r)
    \/ Quiet /\ Sweep
    \/ Quiet /\ Tick
    \/ \E u \in Users : Quiet /\ DeleteUser(u)

Next == Step(Req, {"GET", "POST"}, FALSE)

\* one request at a time, with every method and every way of submitting a token
NextGuard == Step({1}, Methods, TRUE)

Spec == Init /\ [][Next]_vars

SpecGuard == Init /\ [][NextGuard]_vars

\* one request at a time, with the sweep ticker delivering its ticks and every
\* finished request leaving the server
NextLive == Step({1}, {"GET", "POST"}, FALSE)

SpecLive ==
    /\ Init /\ [][NextLive]_vars
    /\ WF_vars(Quiet /\ Sweep)
    /\ WF_vars(\E r \in Req : Reset(r))

\* The state after one tick and one finished request without cookie: the session
\* minted for it is in the store. From here the model follows MaxRequests further
\* requests.
InitStored ==
    /\ now = 1
    /\ rnd = 2
    /\ store = [id \in Ids |-> IF id = generateSessionID(0) THEN 1 ELSE NoObj]
    /\ heap = [o \in Obj |-> IF o = 1 THEN NewSession(0, 1) ELSE NullSession]
    /\ users = Users
    /\ pc = [r \in Req |-> "idle"]
    /\ sess = [r \in Req |-> NoObj]
    /\ cookie = [r \in Req |-> NoCookie]
    /\ method = [r \in Req |-> ""]
    /\ tok = [r \in Req |-> NoTok]
    /\ route = [r \in Req |-> ""]
    /\ old = [r \in Req |-> NoOld]
    /\ resp = [r \in Req |-> NoResp]
    /\ hist = [r \in Req |-> NoHist]
    /\ served = 0

SpecStored == InitStored /\ [][Next]_vars

\* ------------------------------------------------- the cookie round trip
\* WriteSigned and ReadSigned on their own: the server writes a signed cookie for
\* some name, raw value and key, a client sends back what it was given (or no
\* cookie, or an undecodable one), and the server reads it with the same name and
\* key. hist[1] holds the call's arguments and results, resp[1].hdr the Set-Cookie
\* headers, cookie[1] the cookie of the request.
CookieNames == {CookieName, "csrf"} \cup InvalidNames
RawValues == UNION {[1..n -> {1, 2}] : n \in 0..MaxRawLen}
Keys == {SecretKey, ForgedKey}

NotRead == [err |-> "-", value |-> <<>>]

InitCookie ==
    /\ now = 0
    /\ rnd = 0
    /\ store = [id \in Ids |-> NoObj]
    /\ heap = [o \in Obj |-> NullSession]
    /\ users = Users
    /\ pc = [r \in Req |-> "idle"]
    /\ sess = [r \in Req |-> NoObj]
    /\ cookie = [r \in Req |-> NoCookie]
    /\ method = [r \in Req |-> ""]
    /\ tok = [r \in Req |-> NoTok]
    /\ route = [r \in Req |-> ""]
    /\ old = [r \in Req |-> NoOld]
    /\ resp = [r \in Req |-> NoResp]
    /\ \E n \in CookieNames, v \in RawValues, k \in Keys :
          hist = [r \in Req |-> [name |-> n, value |-> v, key |-> k,
                                 err |-> "-", got |-> NotRead]]
    /\ served = 0

\* cookies.WriteSigned(w, cookie, secretKey)
CookieWrite ==
    /\ pc[1] = "idle"
    /\ LET w == WriteSigned(hist[1].name, hist[1].value, hist[1].key)
       IN  /\ resp' = [resp EXCEPT ![1].hdr = resp[1].hdr \o w.set]
           /\ hist' = [hist EXCEPT ![1].err = w.err]
    /\ pc' = [pc EXCEPT ![1] = "written"]
    /\ UNCHANGED <<now, rnd, store, heap, users, sess, cookie, method, tok, route, old, served>>

\* the client's next request carries cookie c
CookieCarry(c) ==
    /\ pc[1] = "written"
    /\ cookie' = [cookie EXCEPT ![1] = c]
    /\ pc' = [pc EXCEPT ![1] = "carried"]
    /\ UNCHANGED <<now, rnd, store, heap, users, sess, method, tok, route, old, resp, hist, served>>

\* cookies.ReadSigned(r, name, secretKey)
CookieRead ==
    /\ pc[1] = "carried"
    /\ hist' = [hist EXCEPT ![1].got = ReadSigned(cookie[1], hist[1].name, hist[1].key)]
    /\ pc' = [pc EXCEPT ![1] = "read"]
    /\ UNCHANGED <<now, rnd, store, heap, users, sess, cookie, method, tok, route, old, resp, served>>

\* what a client can turn a signed value into: cut it short, append a byte,
\* change the last byte of the signature or the last byte of the payload
Altered(b) ==
    {SubSeq(b, 1, j) : j \in 0..(Len(b) - 1)}
        \cup {b \o <<1>>}
        \cup {[b EXCEPT ![Size] = 1 - @]}
        \cup (IF Len(b) > Size THEN {[b EXCEPT ![Len(b)] = 3 - @]} ELSE {})

\* the cookies a client can send under name n when signed values of v exist for
\* every name and key: these values and their alterations
Forgeries(n, v) ==
    LET signed == {Hmac(k2, n2, v) \o v : n2 \in CookieNames, k2 \in Keys}
    IN  {[name |-> n, value |-> EncodeToString(b)] :
            b \in signed \cup UNION {Altered(x) : x \in signed}}

NextCookie ==
    \/ CookieWrite
    \/ \E c \in {NoCookie, Garbage} \cup {resp[1].hdr[i] : i \in 1..Len(resp[1].hdr)}
                   \cup Forgeries(hist[1].name, hist[1].value) :
          CookieCarry(c)
    \/ CookieRead

SpecCookie == InitCookie /\ [][NextCookie]_vars

\* ------------------------------------------------------ the events table
\* UpdateEvent, DraftEvent, PublishEvent, ArchiveEvent, DeleteEvent and GetEvent
\* on one event, called by concurrent requests; each action is one statement
\* sent to the database (an UPDATE inside a transaction together with its
\* commit, other sessions seeing nothing in between). store holds the event's
\* row, route[r] the operation of call r and pc[r] its position, hist[r] its
\* EventRequest and the error it returns, resp[r] the handler's response, of
\* which n counts the answers given.
MaxFields == 2

NULL == 0
\* a nil pointer of an EventRequest; 0 is the zero value ("", the zero time, id 0)
Nil == -1
Venues == {1}

NoRow == [exists |-> FALSE, event_title |-> NULL, event_date |-> NULL, ticket_link |-> NULL,
          venue_id |-> NULL, programme_id |-> NULL, notes |-> NULL, status |-> ""]

NoRequest == [Title |-> Nil, Date |-> Nil, TicketLink |-> Nil, VenueID |-> Nil,
              ProgrammeID |-> Nil, Notes |-> Nil]
Fields(req) == {f \in DOMAIN req : req[f] # Nil}
EventRequests ==
    {q \in [Title : {Nil, 0, 2}, Date : {Nil, 0, 1}, TicketLink : {Nil, 0, 1},
            VenueID : {Nil, 0, 1, 9}, ProgrammeID : {Nil, 0, 1}, Notes : {Nil, 1}] :
        Cardinality(Fields(q)) <= MaxFields}

NoCall == [req |-> NoRequest, err |-> ""]

\* UpdateEvent's query builder. A clause is <<column, n>>: "column = $n", or
\* "column = NULL" when n = 0; n is the number of clauses so far plus one
AddValue(b, col, v) ==
    [clauses |-> Append(b.clauses, <<col, Len(b.clauses) + 1>>), vals |-> Append(b.vals, v)]
AddNull(b, col) == [clauses |-> Append(b.clauses, <<col, 0>>), vals |-> b.vals]
AddNullable(b, col, v) ==
    IF v = Nil THEN b ELSE IF v = 0 THEN AddNull(b, col) ELSE AddValue(b, col, v)

BuildUpdate(req) ==
    LET b0 == [clauses |-> <<>>, vals |-> <<>>]
        b1 == IF req.Title = Nil THEN b0 ELSE AddValue(b0, "event_title", req.Title)
        b2 == AddNullable(b1, "event_date", req.Date)
        b3 == AddNullable(b2, "ticket_link", req.TicketLink)
        b4 == AddNullable(b3, "venue_id", req.VenueID)
        b5 == AddNullable(b4, "programme_id", req.ProgrammeID)
    IN  IF req.Notes = Nil THEN b5 ELSE AddValue(b5, "notes", req.Notes)

\* the parameters the statement names: those of its clauses and that of WHERE
\* event_id = $n, n being the number of values with the event id appended
Placeholders(b) ==
    {b.clauses[i][2] : i \in {j \in 1..Len(b.clauses) : b.clauses[j][2] # 0}}
        \cup {Len(b.vals) + 1}

\* tx.Exec of the UPDATE and the commit. The server refuses a statement that
\* names a parameter it was given no value for or leaves one unnamed; an event
\* that is gone gives zero rows; a venue_id without venue violates the foreign key
ExecUpdate(row, b) ==
    LET vals == b.vals \o <<1>>
        set(c) == {i \in 1..Len(b.clauses) : b.clauses[i][1] = c}
        new == [c \in DOMAIN row |->
                   IF set(c) = {} THEN row[c]
                   ELSE LET n == b.clauses[CHOOSE i \in set(c) : TRUE][2]
                        IN  IF n = 0 THEN NULL ELSE vals[n]]
    IN  IF Placeholders(b) # 1..Len(vals) THEN [err |-> "failed to update event", row |-> row]
        ELSE IF ~row.exists THEN [err |-> "ErrResourceNotFound", row |-> row]
        ELSE IF new.venue_id \notin Venues \cup {NULL}
        THEN [err |-> "ErrForeignKeyViolation", row |-> row]
        ELSE [err |-> "", row |-> new]

\* PublishEvent's completeness query
Complete(row) ==
    /\ row.exists
    /\ row.event_title # NULL /\ row.event_date # NULL /\ row.ticket_link # NULL
    /\ row.venue_id # NULL /\ row.programme_id # NULL

\* UPDATE events SET status = target WHERE event_id = $1 AND status <> target
SetStatus(row, target) ==
    IF row.exists /\ row.status # target
    THEN [rows |-> 1, row |-> [row EXCEPT !.status = target]]
    ELSE [rows |-> 0, row |-> row]

\* ------------------------------------------------ EventHandler (event.go)
\* respondJSON and http.Error: WriteHeader, then the body
respondJSON(p, status) == [RawWrite(RawWriteHeader(p, status)) EXCEPT !.n = p.n + 1]
Error(p, code) == [RawWrite(RawWriteHeader(p, code)) EXCEPT !.n = p.n + 1]

\* update's answer to the error of UpdateEvent
updateAnswer(p, err) ==
    IF err = "" THEN respondJSON(p, 200)
    ELSE IF err = "ErrResourceNotFound" THEN Error(p, 404)
    ELSE IF err \in {"ErrForeignKeyViolation", "ErrImmutableState", "ErrEmptyRequest"}
    THEN Error(p, 400)
    ELSE Error(p, 500)

\* draft's, publish's and archive's answer: the ErrStatusUnchanged branch
\* answers 200 and does not return, so that the 500 below it follows
statusAnswer(p, err) ==
    IF err = "" THEN respondJSON(p, 200)
    ELSE IF err = "ErrResourceNotFound" THEN Error(p, 404)
    ELSE IF err = "ErrStatusUnchanged" THEN Error(respondJSON(p, 200), 500)
    ELSE Error(p, 500)

Answer(op, p, err) == IF op = "update" THEN updateAnswer(p, err) ELSE statusAnswer(p, err)

Target(op) ==
    IF op = "draft" THEN "draft" ELSE IF op = "publish" THEN "published" ELSE "archived"

\* the call of request r returns err to its handler, which answers
Return(r, op, err) ==
    /\ hist' = [hist EXCEPT ![r] = [req |-> NoRequest, err |-> err]]
    /\ resp' = [resp EXCEPT ![r] = Answer(op, resp[r], err)]
    /\ pc' = [pc EXCEPT ![r] = "done"]
    /\ route' = [route EXCEPT ![r] = op]

\* the call of request r goes on to its UPDATE
Proceed(r, op, req) ==
    /\ hist' = [hist EXCEPT ![r] = [req |-> req, err |-> ""]]
    /\ pc' = [pc EXCEPT ![r] = "exec"]
    /\ route' = [route EXCEPT ![r] = op]
    /\ resp' = resp

\* UpdateEvent up to the UPDATE: the status query and the checks of the request
UpdateEvent(r, req) ==
    /\ pc[r] = "idle"
    /\ IF ~store.exists THEN Return(r, "update", "failed status query")
       ELSE IF store.status # "draft" THEN Return(r, "update", "ErrImmutableState")
       ELSE IF req.Title = 0 THEN Return(r, "update", "ErrBlankField")
       ELSE IF Fields(req) = {} THEN Return(r, "update", "ErrEmptyRequest")
       ELSE Proceed(r, "update", req)
    /\ UNCHANGED <<now, rnd, store, heap, users, sess, cookie, method, tok, old, served>>

\* UpdateEvent's UPDATE and commit
UpdateEventExec(r) ==
    /\ pc[r] = "exec" /\ route[r] = "update"
    /\ LET x == ExecUpdate(store, BuildUpdate(hist[r].req))
       IN  /\ store' = x.row
           /\ IF x.err # "" THEN Return(r, "update", x.err)
              ELSE /\ pc' = [pc EXCEPT ![r] = "get"]
                   /\ hist' = [hist EXCEPT ![r].req = NoRequest]
                   /\ UNCHANGED <<route, resp>>
    /\ UNCHANGED <<now, rnd, heap, users, sess, cookie, method, tok, old, served>>

\* PublishEvent up to the UPDATE: the completeness query
PublishEvent(r) ==
    /\ pc[r] = "idle"
    /\ IF ~Complete(store) THEN Return(r, "publish", "ErrIncompleteResource")
       ELSE Proceed(r, "publish", NoRequest)
    /\ UNCHANGED <<now, rnd, store, heap, users, sess, cookie, method, tok, old, served>>

\* PublishEvent's UPDATE and commit: zero rows is reported as not found
PublishEventExec(r) ==
    /\ pc[r] = "exec" /\ route[r] = "publish"
    /\ LET x == SetStatus(store, "published")
       IN  /\ store' = x.row
           /\ IF x.rows = 0 THEN Return(r, "publish", "ErrResourceNotFound")
              ELSE /\ pc' = [pc EXCEPT ![r] = "get"]
                   /\ UNCHANGED <<route, resp, hist>>
    /\ UNCHANGED <<now, rnd, heap, users, sess, cookie, method, tok, old, served>>

\* DraftEvent and ArchiveEvent up to the UPDATE: the existence query
DraftEvent(r) ==
    /\ pc[r] = "idle"
    /\ IF ~store.exists THEN Return(r, "draft", "ErrResourceNotFound")
       ELSE Proceed(r, "draft", NoRequest)
    /\ UNCHANGED <<now, rnd, store, heap, users, sess, cookie, method, tok, old, served>>

ArchiveEvent(r) ==
    /\ pc[r] = "idle"
    /\ IF ~store.exists THEN Return(r, "archive", "ErrResourceNotFound")
       ELSE Proceed(r, "archive", NoRequest)
    /\ UNCHANGED <<now, rnd, store, heap, users, sess, cookie, method, tok, old, served>>

\* DraftEvent's and ArchiveEvent's UPDATE
StatusExec(r, op) ==
    /\ pc[r] = "exec" /\ route[r] = op
    /\ LET x == SetStatus(store, Target(op))
       IN  /\ store' = x.row
           /\ IF x.rows = 0 THEN Return(r, op, "ErrStatusUnchanged")
              ELSE /\ pc' = [pc EXCEPT ![r] = "get"]
                   /\ UNCHANGED <<route, resp, hist>>
    /\ UNCHANGED <<now, rnd, heap, users, sess, cookie, method, tok, old, served>>

DraftEventExec(r) == StatusExec(r, "draft")

ArchiveEventExec(r) == StatusExec(r, "archive")

\* the GetEvent that ends every successful call, and the handler's answer
GetEvent(r) ==
    /\ pc[r] = "get"
    /\ Return(r, route[r], IF store.exists THEN "" ELSE "ErrResourceNotFound")
    /\ UNCHANGED <<now, rnd, store, heap, users, sess, cookie, method, tok, old, served>>

\* the response is out
EventDone(r) ==
    /\ pc[r] = "done"
    /\ pc' = [pc EXCEPT ![r] = "idle"]
    /\ route' = [route EXCEPT ![r] = ""]
    /\ hist' = [hist EXCEPT ![r] = NoCall]
    /\ resp' = [resp EXCEPT ![r] = NoResp]
    /\ UNCHANGED <<now, rnd, store, heap, users, sess, cookie, method, tok, old, served>>

\* DELETE FROM events WHERE event_id = $1
DeleteEvent ==
    /\ store.exists
    /\ \A q \in Req : pc[q] # "done"
    /\ store' = NoRow
    /\ UNCHANGED <<now, rnd, heap, users, pc, sess, cookie, method, tok, route, old, resp,
                   hist, served>>

\* an event as CreateEvent leaves it: a title, the other columns set or not
InitEvents ==
    /\ now = 0
    /\ rnd = 0
    /\ \E d, l, v, g \in {NULL, 1} :
          store = [NoRow EXCEPT !.exists = TRUE, !.event_title = 1, !.event_date = d,
                                !.ticket_link = l, !.venue_id = v, !.programme_id = g,
                                !.status = "draft"]
    /\ heap = [o \in Obj |-> NullSession]
    /\ users = Users
    /\ pc = [r \in Req |-> "idle"]
    /\ sess = [r \in Req |-> NoObj]
    /\ cookie = [r \in Req |-> NoCookie]
    /\ method = [r \in Req |-> ""]
    /\ tok = [r \in Req |-> NoTok]
    /\ route = [r \in Req |-> ""]
    /\ old = [r \in Req |-> NoOld]
    /\ resp = [r \in Req |-> NoResp]
    /\ hist = [r \in Req |-> NoCall]
    /\ served = 0

NextEvents ==
    \/ \E r \in Req : \E req \in EventRequests : UpdateEvent(r, req)
    \/ \E r \in Req : UpdateEventExec(r)
    \/ \E r \in Req : PublishEvent(r)
    \/ \E r \in Req : PublishEventExec(r)
    \/ \E r \in Req : DraftEvent(r)
    \/ \E r \in Req : DraftEventExec(r)
    \/ \E r \in Req : ArchiveEvent(r)
    \/ \E r \in Req : ArchiveEventExec(r)
    \/ \E r \in Req : GetEvent(r)
    \/ \E r \in Req : EventDone(r)
    \/ DeleteEvent

SpecEvents == InitEvents /\ [][NextEvents]_vars

\* ================================================================ claims
\* the Set-Cookie headers of a response that name the session cookie validly
SessionCookies(cs) ==
    {i \in 1..Len(cs) : SessionId(cs[i]) # 0}

\* C1: a request that passes the CSRF check gets exactly one session Set-Cookie:
\* the header map never holds a second one, the first Write/WriteHeader sends it,
\* and a handler that never writes still ends with it on the wire
C1_ExactlyOneCookie ==
    \A r \in Req :
        hist[r].rejected # "csrf" =>
            /\ Len(resp[r].hdr) <= 1
            /\ resp[r].n > 0 => (resp[r].wrote /\ Len(resp[r].wire) = 1)
            /\ pc[r] = "done" =>
                 /\ resp[r].wrote
                 /\ Len(resp[r].wire) = 1
                 /\ Cardinality(SessionCookies(resp[r].wire)) = 1

\* a handler behind the guard returned without a single Write or WriteHeader and
\* the response still went out with the one cookie
C1_Witness ==
    \E r \in Req :
        /\ pc[r] = "done" /\ hist[r].handler = 1 /\ resp[r].n = 0
        /\ Len(resp[r].wire) = 1

\* C2: start never aborts and ends Active or Minted: Minted (a fresh id that is not
\* the presented one, unauthenticated, a csrf token, createdAt = lastActivityAt)
\* unless the cookie was validly signed, its id was in the store and the session
\* was fresh, and then Active
C2_StartActiveOrMinted ==
    \A r \in Req :
        /\ pc[r] # "panic"
        /\ pc[r] = "csrf" =>
             LET s == heap[sess[r]]
                 v == SessionId(cookie[r])
             IN  /\ hist[r].start \in {"active", "minted"}
                 /\ hist[r].start = "active" <=> (v # 0 /\ hist[r].cid = v /\ hist[r].fresh)
                 /\ hist[r].start = "minted" =>
                      /\ cookie[r].value.bytes # Hmac(SecretKey, CookieName, idString(s.id)) \o idString(s.id)
                      /\ cookie[r].value.bytes # Hmac(ForgedKey, CookieName, idString(s.id)) \o idString(s.id)
                      /\ \A id \in Ids : store[id] # sess[r]
                      /\ ~s.auth /\ s.user = NoUser
                      /\ s.csrf # <<>>
                      /\ s.created = s.last

\* C3: a session that vanished from the store between the read and validate's
\* destroy is treated as expired: no request aborts in start
C3_VanishedIsExpired ==
    \A r \in Req : hist[r].start # "panic"

C5_NoFixation ==
    \A r \in Req :
        (pc[r] = "done" /\ hist[r].login = "ok") =>
            LET s == heap[sess[r]]
            IN  /\ s.auth /\ s.user = old[r].name
                /\ s.id # old[r].id
                /\ Len(resp[r].wire) = 1
                /\ SessionId(resp[r].wire[1]) = s.id
                /\ \/ read(store, old[r].id) = NoObj
                   \/ ~heap[read(store, old[r].id)].auth

\* C6: the protected handler runs only for a session read as authenticated, with a
\* username, whose user the lookup found without error; every other request that
\* reaches the guard is answered 403 without the handler
C6_AuthGate ==
    \A r \in Req :
        /\ hist[r].handler > 0 =>
             /\ hist[r].seen.auth /\ hist[r].seen.user \in Users
             /\ ~hist[r].seen.err /\ hist[r].seen.exists
             /\ hist[r].rejected = ""
        /\ (route[r] = "crud" /\ pc[r] \in {"save", "done"}
              /\ ~(hist[r].seen.auth /\ hist[r].seen.user \in Users
                    /\ ~hist[r].seen.err /\ hist[r].seen.exists)) =>
             /\ hist[r].handler = 0
             /\ hist[r].rejected = "auth"
             /\ resp[r].status = 403

\* an authenticated session whose lookup failed was turned away
C6_Witness ==
    \E r \in Req :
        /\ pc[r] = "done" /\ route[r] = "crud"
        /\ hist[r].seen.auth /\ hist[r].seen.user \in Users /\ hist[r].seen.err
        /\ hist[r].handler = 0 /\ resp[r].status = 403

\* C7: a request that presents the cookie of a session authenticated as a user who
\* no longer exists is answered 403, and the id it presented, which the session
\* still had when the guard ran, is not in the store when the request ends
C7_StaleSessionMigrated ==
    \A r \in Req :
        (pc[r] = "done" /\ route[r] = "crud"
            /\ hist[r].seen.auth /\ hist[r].seen.user \in Users
            /\ ~hist[r].seen.err /\ ~hist[r].seen.exists
            /\ hist[r].cid = old[r].id) =>
            /\ resp[r].status = 403
            /\ read(store, hist[r].cid) = NoObj

\* C8: for POST, PUT, PATCH and DELETE the downstream handler is invoked only when
\* the submitted token (the form field, or the header when the form field is
\* empty) equals the session's csrf token; a longer, different or absent token
\* gets 403 and neither the downstream handler nor the protected handler runs
C8_CsrfGuard ==
    \A r \in Req :
        method[r] \in {"POST", "PUT", "PATCH", "DELETE"} =>
            LET sub == IF tok[r].form = <<>> THEN tok[r].header ELSE tok[r].form
            IN  /\ hist[r].next > 0 => sub = tok[r].held
                /\ sub # tok[r].held =>
                     /\ pc[r] = "done"
                     /\ resp[r].status = 403
                     /\ hist[r].next = 0 /\ hist[r].handler = 0
                     /\ hist[r].rejected = "csrf"

\* a DELETE whose token is the session's token with one more byte was refused
C8_Witness ==
    \E r \in Req :
        /\ method[r] = "DELETE" /\ pc[r] = "done" /\ resp[r].status = 403
        /\ Len(tok[r].form) > Len(tok[r].held)
        /\ SubSeq(tok[r].form, 1, Len(tok[r].held)) = tok[r].held
        /\ hist[r].next = 0

\* C9: a request the CSRF guard refused is answered 403 with one valid session
\* cookie for the session start resolved, and that session is in the store
C9_CsrfRejectionKeepsCookie ==
    \A r \in Req :
        (pc[r] = "done" /\ hist[r].rejected = "csrf") =>
            LET s == heap[sess[r]]
            IN  /\ resp[r].status = 403
                /\ Len(resp[r].wire) = 1
                /\ SessionId(resp[r].wire[1]) = s.id
                /\ read(store, s.id) = sess[r]

\* C10: a request with a method other than POST, PUT, PATCH and DELETE is never
\* refused by the CSRF guard; it reaches the downstream handler whatever token
\* it carries
C10_SafeMethodsBypass ==
    \A r \in Req :
        (method[r] # "" /\ method[r] \notin {"POST", "PUT", "PATCH", "DELETE"}) =>
            /\ pc[r] = "next"
            /\ hist[r].next = 1
            /\ hist[r].rejected = ""
            /\ resp[r].status # 403

\* a GET, a HEAD or an OPTIONS with a wrong token, and a GET with none, went through
C10_Witness ==
    \E r \in Req :
        /\ method[r] \in {"GET", "HEAD", "OPTIONS"} /\ pc[r] = "next"
        /\ tok[r].form # tok[r].held /\ tok[r].header # tok[r].held
        /\ hist[r].next = 1

\* C11: validate returns true exactly when now - createdAt <= absoluteExpiration
\* and now - lastActivityAt <= idleExpiration; when it has returned false the
\* session is under no id in the store, and start binds a new session, never the
\* one validate refused
C11_ValidateDestroys ==
    [][\A r \in Req :
        (pc[r] = "validate" /\ pc'[r] # "validate" /\ sess[r] # NoObj) =>
            LET s == heap[sess[r]]
                inTime == now - s.created <= AbsoluteExpiration
                            /\ now - s.last <= IdleExpiration
                returnedTrue == pc'[r] = "csrf" /\ sess'[r] = sess[r]
                returnedFalse == pc'[r] = "csrf" /\ sess'[r] # sess[r]
            IN  /\ returnedTrue <=> inTime
                /\ returnedFalse =>
                     /\ ~inTime
                     /\ \A id \in Ids : store'[id] # sess[r]
                     /\ sess'[r] # NoObj
      ]_vars

\* a stored session the sweep has to remove at the current time
Due(id) ==
    /\ store[id] # NoObj
    /\ \/ now - heap[store[id]].last > IdleExpiration
       \/ now - heap[store[id]].created > AbsoluteExpiration

\* C12: one sweep removes exactly the stored sessions whose idle time or age is
\* over the limit: what gc leaves of the current store holds none of them and
\* holds every other session under its id, and the step of the sweep changes no
\* field of a session it keeps
C12_SweepExact ==
    /\ [](\A id \in Ids :
            gc(store, heap, now, IdleExpiration, AbsoluteExpiration)[id]
                = IF Due(id) THEN NoObj ELSE store[id])
    /\ [][(pc' = pc /\ now' = now /\ users' = users /\ store' # store) =>
            \A id \in Ids :
                /\ Due(id) => store'[id] = NoObj
                /\ ~Due(id) =>
                     /\ store'[id] = store[id]
                     /\ store[id] # NoObj => heap'[store[id]] = heap[store[id]]
         ]_vars

\* the store holds a session past its age limit whose idle time is within the
\* limit, one past its idle limit, and one the sweep keeps
C12_Witness ==
    /\ \E id \in Ids :
          /\ store[id] # NoObj
          /\ now - heap[store[id]].created > AbsoluteExpiration
          /\ now - heap[store[id]].last <= IdleExpiration
    /\ \E id \in Ids : store[id] # NoObj /\ now - heap[store[id]].last > IdleExpiration
    /\ \E id \in Ids : store[id] # NoObj /\ ~Due(id)

\* C13: with the ticker delivering its ticks, a stored session whose idle time or
\* age is over the limit is eventually out of the store under that id, unless a
\* save has made it current again; this holds after every request outcome, a
\* request that aborted included
C13_ExpiredEventuallySwept ==
    \A id \in Ids : \A o \in Obj :
        (store[id] = o /\ Due(id)) ~> (store[id] # o \/ ~Due(id))

\* a request validated its session, the session then ran out of time and the
\* sweep took it from the store while the request was still being served
C13_Witness ==
    \E r \in Req :
        /\ pc[r] \in {"csrf", "next", "handler"}
        /\ hist[r].start = "active"
        /\ now - heap[sess[r]].last > IdleExpiration
        /\ \A id \in Ids : store[id] # sess[r]

\* C14: the store is a map from id to session. In every reachable store: read
\* gives the entry under the id or not-found; write puts the session under its
\* own id and leaves every other key; destroy of a present id succeeds and
\* removes that key only; destroy of an absent id is an error that leaves the
\* store as it was, so a second destroy of the same id is an error. Every step
\* changes an entry only by removing it or by writing a session under its id.
C14_StoreContract ==
    /\ [](\A id \in Ids :
            /\ read(store, id) = store[id]
            /\ destroyOk(store, id) <=> store[id] # NoObj
            /\ destroyOk(store, id) =>
                 /\ read(destroy(store, id), id) = NoObj
                 /\ \A k \in Ids \ {id} : destroy(store, id)[k] = store[k]
                 /\ ~destroyOk(destroy(store, id), id)
            /\ ~destroyOk(store, id) => destroy(store, id) = store)
    /\ [](\A o \in Obj :
            (heap[o].live /\ heap[o].id \in Ids) =>
                /\ read(write(store, heap, o), heap[o].id) = o
                /\ \A k \in Ids \ {heap[o].id} : write(store, heap, o)[k] = store[k])
    /\ [][\A id \in Ids :
            store'[id] # store[id] =>
                \/ store'[id] = NoObj
                \/ heap'[store'[id]].id = id
         ]_vars

\* two requests migrated the same session: the first destroy succeeded, the
\* second destroy of the same id was reported as an error
C14_Witness ==
    \E r, q \in Req :
        /\ r # q /\ sess[r] = sess[q] /\ sess[r] # NoObj
        /\ pc[r] = "migrate"
        /\ hist[q].login = "err" /\ old[q].id = old[r].id
        /\ store[old[r].id] = NoObj

\* C15: no task writes a field of a session outside the store's lock while the
\* session can be reached by another task that reads or writes that field:
\* neither by another request bound to the same session nor, for a session in
\* the map, by the sweep
C15_OnlyMapShared ==
    \A r \in Req :
        sess[r] # NoObj =>
            /\ \A q \in Req \ {r} :
                  sess[q] = sess[r] =>
                      UnlockedWrites(r) \cap (SessionReads(q) \cup UnlockedWrites(q)) = {}
            /\ (\E id \in Ids : store[id] = sess[r]) =>
                  UnlockedWrites(r) \cap SweepReads = {}

\* C16: every session that is in the store or bound to a request holds a
\* non-empty csrf token and a boolean authenticated value
C16_LiveSessionShape ==
    \A o \in Obj :
        ((\E id \in Ids : store[id] = o) \/ (\E r \in Req : sess[r] = o)) =>
            /\ heap[o].live
            /\ heap[o].csrf \in Seq(Ids) /\ Len(heap[o].csrf) > 0
            /\ heap[o].auth \in BOOLEAN

\* a session that was minted, logged in and logged out is back in the store
C16_Witness ==
    \E r \in Req :
        /\ pc[r] = "done" /\ route[r] = "logout"
        /\ old[r].id > 2 /\ heap[sess[r]].id > old[r].id
        /\ store[heap[sess[r]].id] = sess[r]
        /\ ~heap[sess[r]].auth

\* C17: the response of every request that went past the CSRF guard carries in
\* X-CSRF-Token the csrf token its session holds when the request has been saved,
\* also when the session was migrated during the request
C17_CsrfHeaderCurrent ==
    \A r \in Req :
        (pc[r] = "done" /\ hist[r].rejected # "csrf") =>
            {h[2] : h \in {g \in resp[r].sent : g[1] = "X-CSRF-Token"}}
                = {heap[sess[r]].csrf}

\* C18: every response that leaves the session middleware carries Vary: Cookie
\* and Cache-Control: no-cache, whether the handler ran or the request was
\* refused by the CSRF guard or by the authentication guard
C18_SessionHeadersAlways ==
    \A r \in Req :
        pc[r] = "done" =>
            /\ <<"Vary", "Cookie">> \in resp[r].sent
            /\ <<"Cache-Control", "no-cache">> \in resp[r].sent

\* C19: no step changes the createdAt of a session that stays in the store or
\* bound to a request; the save of a request sets the session's lastActivityAt
\* to the current time and puts it in the store under the id it has, and changes
\* no other field, no other session and no other store entry
C19_CreatedAtFixed ==
    [][/\ \A o \in Obj :
             (heap[o].live /\ ((\E id \in Ids : store'[id] = o) \/ (\E r \in Req : sess'[r] = o)))
                 => heap'[o].created = heap[o].created
       /\ \A r \in Req :
             (pc[r] = "save" /\ pc'[r] = "done") =>
                 LET o == sess[r]
                 IN  /\ heap' = [heap EXCEPT ![o].last = now]
                     /\ store'[heap[o].id] = o
                     /\ \A id \in Ids \ {heap[o].id} : store'[id] = store[id]
      ]_vars

\* a session minted earlier went through login and was saved later: createdAt is
\* that of the minting, lastActivityAt that of the save
C19_Witness ==
    \E r \in Req :
        /\ pc[r] = "done" /\ hist[r].login = "ok"
        /\ heap[sess[r]].created < heap[sess[r]].last
        /\ heap[sess[r]].last = now
        /\ store[heap[sess[r]].id] = sess[r]

\* C20: when WriteSigned has returned nil for a name, a raw value and a key, and
\* the request carries the cookie it wrote, ReadSigned with the same name and key
\* returns the raw value and no error
C20_SignedRoundTrip ==
    (/\ pc[1] = "read"
     /\ hist[1].err = ""
     /\ \E i \in 1..Len(resp[1].hdr) : cookie[1] = resp[1].hdr[i]) =>
        hist[1].got = [err |-> "", value |-> hist[1].value]

\* the round trip of the empty raw value: the signed value is Size bytes long
C20_Witness ==
    /\ pc[1] = "read"
    /\ hist[1].err = ""
    /\ \E i \in 1..Len(resp[1].hdr) : cookie[1] = resp[1].hdr[i]
    /\ hist[1].value = <<>>
    /\ hist[1].got = [err |-> "", value |-> <<>>]

\* C21: ReadSigned returns a value only for a cookie whose decoded bytes are the
\* HMAC of the name and the remaining bytes under the key, followed by those
\* bytes; every other decodable cookie of that name (shorter than the signature,
\* signature or payload altered, signed for another name or with another key)
\* fails with ErrInvalidValue, and every failure returns the empty string
C21_OnlySignedAccepted ==
    pc[1] = "read" =>
        LET g == hist[1].got
            c == cookie[1]
            b == c.value.bytes
            rest == SubSeq(b, Size + 1, Len(b))
            genuine == /\ Len(b) >= Size
                       /\ b = Hmac(hist[1].key, hist[1].name, rest) \o rest
        IN  /\ g.err = "" => (c.value.b64 /\ genuine /\ g.value = rest)
            /\ g.err # "" => g.value = <<>>
            /\ (c.name = hist[1].name /\ isCookieNameValid(c.name)
                  /\ c.value.b64 /\ ~genuine) => g = ErrInvalidValue

\* a value signed with the same key for another cookie name was presented under
\* this name and refused
C21_Witness ==
    /\ pc[1] = "read"
    /\ isCookieNameValid(hist[1].name)
    /\ \E n2 \in CookieNames \ {hist[1].name} :
          cookie[1] = [name |-> hist[1].name,
                       value |-> EncodeToString(Hmac(hist[1].key, n2, hist[1].value)
                                                   \o hist[1].value)]
    /\ hist[1].got = ErrInvalidValue

\* C22: once Logout has succeeded on a stored authenticated session, the session
\* is unauthenticated and has no username, its id is not the one it had before,
\* and the id it had before is not in the store, so that the cookie of before
\* leads to no stored session
C22_LogoutInvalidates ==
    \A r \in Req :
        (route[r] = "logout" /\ pc[r] \in {"save", "done"}
            /\ resp[r].status = 204 /\ old[r].id # 0) =>
            LET s == heap[sess[r]]
            IN  /\ ~s.auth /\ s.user = NoUser
                /\ s.id # old[r].id
                /\ read(store, old[r].id) = NoObj

\* C23: every key of the store maps to a session whose id is that key, and no
\* session is in the store under two keys
C23_StoreKeysAreIds ==
    /\ \A k \in Ids : store[k] # NoObj => heap[store[k]].id = k
    /\ \A k, j \in Ids : (store[k] # NoObj /\ store[k] = store[j]) => k = j

\* C24: whenever a step puts a session Set-Cookie on the wire, the request's
\* session is in the store under the id the cookie carries
C24_CookieAfterStore ==
    [][\A r \in Req :
          Len(resp'[r].wire) > Len(resp[r].wire) =>
              read(store', SessionId(resp'[r].wire[Len(resp'[r].wire)])) = sess[r]
      ]_vars

\* C25: the session cookie a request has sent carries the id under which the
\* closing save of that request stored the session
C25_CookieIdIsSavedId ==
    \A r \in Req :
        (pc[r] = "done" /\ hist[r].saved # 0) =>
            /\ Len(resp[r].wire) = 1
            /\ SessionId(resp[r].wire[1]) = hist[r].saved

\* C26: a Migrate that finds the session's id missing from the store changes
\* neither the store nor any session; Logout's caller then answers 500, and
\* the login handler does not answer 200 for the login that did not happen
C26_FailedMigrateIsReported ==
    [][\A r \in Req :
          (/\ pc[r] = "next" /\ pc'[r] = "save"
           /\ route'[r] \in {"login", "logout"}
           /\ old'[r].id # 0
           /\ ~destroyOk(store, heap[sess[r]].id)) =>
              /\ store' = store
              /\ heap' = heap
              /\ route'[r] = "logout" => resp'[r].status = 500
              /\ route'[r] = "login" => resp'[r].status # 200
      ]_vars

C28_PublishedIsComplete ==
    (store.exists /\ store.status = "published") => Complete(store)

\* C29: UpdateEvent changes the event only when its status is draft; on a
\* published or archived event it returns ErrImmutableState; and whenever it
\* returns an error, the event is as it was
C29_UpdateOnlyDraft ==
    [][\A r \in Req :
          (pc'[r] # pc[r] /\ route'[r] = "update") =>
              /\ store' # store => store.status = "draft"
              /\ hist'[r].err # "" => store' = store
              /\ (pc[r] = "idle" /\ store.exists /\ store.status # "draft") =>
                    hist'[r].err = "ErrImmutableState"
      ]_vars

\* C30: a successful DraftEvent, PublishEvent or ArchiveEvent sets the status
\* to draft, published or archived and nothing else; on an event that has the
\* target status already, the call returns ErrStatusUnchanged, changes nothing,
\* and the handler gives one answer, 200
C30_StatusChange ==
    [][\A r \in Req :
          (pc[r] = "exec" /\ pc'[r] # pc[r] /\ route[r] \in {"draft", "publish", "archive"}) =>
              /\ pc'[r] = "get" => store' = [store EXCEPT !.status = Target(route[r])]
              /\ (store.exists /\ store.status = Target(route[r])) =>
                    /\ hist'[r].err = "ErrStatusUnchanged"
                    /\ store' = store
                    /\ resp'[r].status = 200
                    /\ resp'[r].n = 1
      ]_vars

====
